---- MODULE Spec2Model ----
(***************************************************************************)
(* The instruction codec generated by the impl_opcodes! macro              *)
(* (src/src/macros.rs): per-opcode types wrapping the 3 operand bytes, the *)
(* Opcode and Instruction enums, and the conversions between them and the  *)
(* 4-byte wire form.                                                       *)
(*                                                                         *)
(* Every function of the codec is pure.  The state is what a caller of the *)
(* library holds: the values it started from (input) and the calls it has  *)
(* made so far, each with its argument and its result (calls).  A call     *)
(* takes its argument from the input or from the result of an earlier      *)
(* call.                                                                   *)
(***************************************************************************)
EXTENDS Integers, Sequences, FiniteSets, TLC

VARIABLES input, calls

vars == <<input, calls>>

(* The number of calls one caller makes. *)
MaxCalls == 3

-----------------------------------------------------------------------------
(* Values.  Every value is a record [ty, tag, v]: its Rust type, the       *)
(* variant or opcode name where the type has one, and its numbers.         *)

Val(ty, tag, v) == [ty |-> ty, tag |-> tag, v |-> v]

U8(b) == Val("u8", "", <<b>>)
U8x3(bs) == Val("u8x3", "", bs)
U8x4(bs) == Val("u8x4", "", bs)
(* A u32 is held as its two 16-bit halves <<high, low>>: the whole number  *)
(* does not fit a signed 32-bit integer.                                  *)
U32(hi, lo) == Val("u32", "", <<hi, lo>>)
Fields(Op, t) == Val("Fields", Op, t)
RegIdVal(Op, r) == Val("RegId", Op, <<r>>)
ImmVal(ty, Op, i) == Val(ty, Op, <<i>>)

(* pub struct $Op([u8; 3]) *)
OpStruct(Op, arr) == Val("Op", Op, arr)

(* pub enum Opcode { $Op = $ix, ... } *)
OpcodeEnum(Op) == Val("Opcode", Op, <<>>)

(* pub enum Instruction { $Op($Op), ... } *)
InstructionEnum(Op, arr) == Val("Instruction", Op, arr)

(* Err(InvalidOpcode) *)
InvalidOpcode == Val("Err", "InvalidOpcode", <<>>)

(* match inst { Instruction::$Op(op) => op } *)
Payload(inst) == OpStruct(inst.tag, inst.v)

-----------------------------------------------------------------------------
(* The opcode table the macro is invoked with: one entry                   *)
(* "$doc $ix $Op $op [$($field)*]" per opcode.  One opcode per operand     *)
(* layout, a second three-register opcode, and 0x00 a no-operand opcode.   *)

Registry ==
    << [ix |-> 0,   Op |-> "NOOP", fields |-> <<>>],
       [ix |-> 16,  Op |-> "ADD",  fields |-> <<"RegId", "RegId", "RegId">>],
       [ix |-> 26,  Op |-> "MOVE", fields |-> <<"RegId", "RegId">>],
       [ix |-> 36,  Op |-> "RET",  fields |-> <<"RegId">>],
       [ix |-> 80,  Op |-> "ADDI", fields |-> <<"RegId", "RegId", "Imm12">>],
       [ix |-> 114, Op |-> "MOVI", fields |-> <<"RegId", "Imm18">>],
       [ix |-> 144, Op |-> "JI",   fields |-> <<"Imm24">>],
       [ix |-> 176, Op |-> "WQAM", fields |-> <<"RegId", "RegId", "RegId", "RegId">>],
       [ix |-> 254, Op |-> "XOR",  fields |-> <<"RegId", "RegId", "RegId">>] >>

Ops == {Registry[k].Op : k \in 1..Len(Registry)}

Entry(Op) == Registry[CHOOSE k \in 1..Len(Registry) : Registry[k].Op = Op]

(* The field list of $Op, which selects the macro arm. *)
Layout(Op) == Entry(Op).fields

-----------------------------------------------------------------------------
(* The packing helpers the generated methods call.  A register is 6 bits,  *)
(* fields are placed most significant first, unused low bits are zero.     *)

u8x3_from_u24(u) == <<u \div 65536, (u \div 256) % 256, u % 256>>

u24_from_u8x3(bs) == bs[1] * 65536 + bs[2] * 256 + bs[3]

bytes_from_ra(ra) == u8x3_from_u24(ra * 262144)

bytes_from_ra_rb(ra, rb) == u8x3_from_u24(ra * 262144 + rb * 4096)

bytes_from_ra_rb_rc(ra, rb, rc) == u8x3_from_u24(ra * 262144 + rb * 4096 + rc * 64)

bytes_from_ra_rb_rc_rd(ra, rb, rc, rd) ==
    u8x3_from_u24(ra * 262144 + rb * 4096 + rc * 64 + rd)

bytes_from_ra_rb_imm12(ra, rb, imm) == u8x3_from_u24(ra * 262144 + rb * 4096 + imm)

bytes_from_ra_imm18(ra, imm) == u8x3_from_u24(ra * 262144 + imm)

bytes_from_imm24(imm) == u8x3_from_u24(imm)

ra_from_bytes(bs) == (u24_from_u8x3(bs) \div 262144) % 64

rb_from_bytes(bs) == (u24_from_u8x3(bs) \div 4096) % 64

rc_from_bytes(bs) == (u24_from_u8x3(bs) \div 64) % 64

rd_from_bytes(bs) == u24_from_u8x3(bs) % 64

imm12_from_bytes(bs) == u24_from_u8x3(bs) % 4096

imm18_from_bytes(bs) == u24_from_u8x3(bs) % 262144

imm24_from_bytes(bs) == u24_from_u8x3(bs) % 16777216

ra_rb_from_bytes(bs) == <<ra_from_bytes(bs), rb_from_bytes(bs)>>

ra_rb_rc_from_bytes(bs) == <<ra_from_bytes(bs), rb_from_bytes(bs), rc_from_bytes(bs)>>

ra_rb_rc_rd_from_bytes(bs) ==
    <<ra_from_bytes(bs), rb_from_bytes(bs), rc_from_bytes(bs), rd_from_bytes(bs)>>

ra_rb_imm12_from_bytes(bs) == <<ra_from_bytes(bs), rb_from_bytes(bs), imm12_from_bytes(bs)>>

ra_imm18_from_bytes(bs) == <<ra_from_bytes(bs), imm18_from_bytes(bs)>>

(* u32::from_be_bytes *)
u32_from_be_bytes(bs) == U32(bs[1] * 256 + bs[2], bs[3] * 256 + bs[4])

-----------------------------------------------------------------------------
(* The bit budget of the operand layouts. *)

FieldBits(field) ==
    CASE field = "RegId" -> 6
      [] field = "Imm12" -> 12
      [] field = "Imm18" -> 18
      [] field = "Imm24" -> 24

RECURSIVE UsedBits(_)
UsedBits(L) == IF L = <<>> THEN 0 ELSE FieldBits(Head(L)) + UsedBits(Tail(L))

UnusedBits(Op) == 24 - UsedBits(Layout(Op))

RECURSIVE Pow2(_)
Pow2(n) == IF n = 0 THEN 1 ELSE 2 * Pow2(n - 1)

(* The value of the low bits of arr that no field of Op covers. *)
UnusedPart(Op, arr) == u24_from_u8x3(arr) % Pow2(UnusedBits(Op))

(* The value of the bits of arr that the fields of Op cover. *)
UsedPart(Op, arr) == u24_from_u8x3(arr) \div Pow2(UnusedBits(Op))

(* arr with the bits no field of Op covers set to zero. *)
ClearUnused(Op, arr) == u8x3_from_u24(UsedPart(Op, arr) * Pow2(UnusedBits(Op)))

(* R1, R2, R3 and the empty layout. *)
UnderFull(Op) == UnusedBits(Op) > 0

-----------------------------------------------------------------------------
(* impl_op_new: the constructor of $Op, one arm per field layout.  Each    *)
(* arm gives the array the new value wraps.                                *)

impl_op_new_RegId(ra) == bytes_from_ra(ra)

impl_op_new_RegId_RegId(ra, rb) == bytes_from_ra_rb(ra, rb)

impl_op_new_RegId_RegId_RegId(ra, rb, rc) == bytes_from_ra_rb_rc(ra, rb, rc)

impl_op_new_RegId_RegId_RegId_RegId(ra, rb, rc, rd) ==
    bytes_from_ra_rb_rc_rd(ra, rb, rc, rd)

(* Mutant: the two registers are passed in the wrong order. *)
impl_op_new_RegId_RegId_Imm12_swapped(ra, rb, imm) == bytes_from_ra_rb_imm12(rb, ra, imm)

impl_op_new_RegId_RegId_Imm12(ra, rb, imm) == bytes_from_ra_rb_imm12(ra, rb, imm)

impl_op_new_RegId_Imm18(ra, imm) == bytes_from_ra_imm18(ra, imm)

impl_op_new_Imm24(imm) == bytes_from_imm24(imm)

impl_op_new_Empty == <<0, 0, 0>>

(* $Op::new(fields): the arm is selected by the field list of $Op. *)
new(Op, t) ==
    LET L == Layout(Op)
    IN  OpStruct(Op,
          CASE L = <<"RegId">> -> impl_op_new_RegId(t[1])
            [] L = <<"RegId", "RegId">> -> impl_op_new_RegId_RegId(t[1], t[2])
            [] L = <<"RegId", "RegId", "RegId">> ->
                 impl_op_new_RegId_RegId_RegId(t[1], t[2], t[3])
            [] L = <<"RegId", "RegId", "RegId", "RegId">> ->
                 impl_op_new_RegId_RegId_RegId_RegId(t[1], t[2], t[3], t[4])
            [] L = <<"RegId", "RegId", "Imm12">> ->
                 impl_op_new_RegId_RegId_Imm12(t[1], t[2], t[3])
            [] L = <<"RegId", "Imm18">> -> impl_op_new_RegId_Imm18(t[1], t[2])
            [] L = <<"Imm24">> -> impl_op_new_Imm24(t[1])
            [] L = <<>> -> impl_op_new_Empty)

(* impl_op_accessors: the accessor methods a field layout generates; an    *)
(* arm first expands the arm of the shorter layout.                        *)
RECURSIVE impl_op_accessors(_)
impl_op_accessors(L) ==
    CASE L = <<"RegId">> -> {"ra"}
      [] L = <<"RegId", "RegId">> -> impl_op_accessors(<<"RegId">>) \cup {"rb"}
      [] L = <<"RegId", "RegId", "RegId">> ->
           impl_op_accessors(<<"RegId", "RegId">>) \cup {"rc"}
      [] L = <<"RegId", "RegId", "RegId", "RegId">> ->
           impl_op_accessors(<<"RegId", "RegId", "RegId">>) \cup {"rd"}
      [] L = <<"RegId", "RegId", "Imm12">> ->
           impl_op_accessors(<<"RegId", "RegId">>) \cup {"imm12"}
      [] L = <<"RegId", "Imm18">> -> impl_op_accessors(<<"RegId">>) \cup {"imm18"}
      [] L = <<"Imm24">> -> {"imm24"}
      [] L = <<>> -> {}

Op_ra(op) == RegIdVal(op.tag, ra_from_bytes(op.v))

(* Mutant: rb() reads the bits of register C. *)
Op_rb_reads_rc(op) == RegIdVal(op.tag, rc_from_bytes(op.v))

Op_rb(op) == RegIdVal(op.tag, rb_from_bytes(op.v))

Op_rc(op) == RegIdVal(op.tag, rc_from_bytes(op.v))

Op_rd(op) == RegIdVal(op.tag, rd_from_bytes(op.v))

Op_imm12(op) == ImmVal("Imm12", op.tag, imm12_from_bytes(op.v))

Op_imm18(op) == ImmVal("Imm18", op.tag, imm18_from_bytes(op.v))

Op_imm24(op) == ImmVal("Imm24", op.tag, imm24_from_bytes(op.v))

(* impl_op_unpack: one arm per field layout; the empty layout has none. *)
impl_op_unpack_RegId(arr) == <<ra_from_bytes(arr)>>

impl_op_unpack_RegId_RegId(arr) == ra_rb_from_bytes(arr)

impl_op_unpack_RegId_RegId_RegId(arr) == ra_rb_rc_from_bytes(arr)

impl_op_unpack_RegId_RegId_RegId_RegId(arr) == ra_rb_rc_rd_from_bytes(arr)

impl_op_unpack_RegId_RegId_Imm12(arr) == ra_rb_imm12_from_bytes(arr)

(* Mutant: the arm calls the helper of the two-register layout. *)
impl_op_unpack_RegId_Imm18_as_RegId_RegId(arr) == ra_rb_from_bytes(arr)

impl_op_unpack_RegId_Imm18(arr) == ra_imm18_from_bytes(arr)

impl_op_unpack_Imm24(arr) == <<imm24_from_bytes(arr)>>

HasUnpack(Op) == Layout(Op) # <<>>

unpack(op) ==
    LET L == Layout(op.tag)
    IN  Fields(op.tag,
          CASE L = <<"RegId">> -> impl_op_unpack_RegId(op.v)
            [] L = <<"RegId", "RegId">> -> impl_op_unpack_RegId_RegId(op.v)
            [] L = <<"RegId", "RegId", "RegId">> -> impl_op_unpack_RegId_RegId_RegId(op.v)
            [] L = <<"RegId", "RegId", "RegId", "RegId">> ->
                 impl_op_unpack_RegId_RegId_RegId_RegId(op.v)
            [] L = <<"RegId", "RegId", "Imm12">> -> impl_op_unpack_RegId_RegId_Imm12(op.v)
            [] L = <<"RegId", "Imm18">> -> impl_op_unpack_RegId_Imm18(op.v)
            [] L = <<"Imm24">> -> impl_op_unpack_Imm24(op.v))

-----------------------------------------------------------------------------
(* impl_op: the constant and the conversions of $Op. *)

(* pub const OPCODE: Opcode = Opcode::$Op *)
OPCODE(Op) == OpcodeEnum(Op)

(* "opcode as u8": the discriminant $ix of the #[repr(u8)] enum. *)
Opcode_as_u8(opcode) == Entry(opcode.tag).ix

From_Op_for_u8x3(op) == U8x3(op.v)

(* Mutant: the wire form is written with the unused operand bits zeroed. *)
From_Op_for_u8x4_canonical(op) ==
    LET z == ClearUnused(op.tag, op.v)
    IN  U8x4(<<Opcode_as_u8(OPCODE(op.tag)), z[1], z[2], z[3]>>)

From_Op_for_u8x4(op) ==
    U8x4(<<Opcode_as_u8(OPCODE(op.tag)), op.v[1], op.v[2], op.v[3]>>)

(* Mutant: the 4 bytes are read little-endian. *)
From_Op_for_u32_le(op) ==
    LET bs == From_Op_for_u8x4(op).v
    IN  U32(bs[4] * 256 + bs[3], bs[2] * 256 + bs[1])

From_Op_for_u32(op) == u32_from_be_bytes(From_Op_for_u8x4(op).v)

From_Op_for_Instruction(op) == InstructionEnum(op.tag, op.v)

(* impl_op_constructor: pub fn $op(fields) -> Instruction *)
impl_op_constructor(Op, t) == From_Op_for_Instruction(new(Op, t))

-----------------------------------------------------------------------------
(* impl_opcode: TryFrom<u8> for Opcode.  The match takes the first arm     *)
(* whose $ix is u, and the wildcard arm when there is none.                *)

(* Mutant: the arm of the second opcode is written with the wrong literal. *)
Opcode_try_from_typo(u) ==
    LET ix(k) == IF k = 2 THEN Registry[k].ix + 1 ELSE Registry[k].ix
        arms == {k \in 1..Len(Registry) : ix(k) = u}
    IN  IF arms = {}
        THEN InvalidOpcode
        ELSE OpcodeEnum(Registry[CHOOSE k \in arms : \A j \in arms : k <= j].Op)

Opcode_try_from(u) ==
    LET arms == {k \in 1..Len(Registry) : Registry[k].ix = u}
    IN  IF arms = {}
        THEN InvalidOpcode
        ELSE OpcodeEnum(Registry[CHOOSE k \in arms : \A j \in arms : k <= j].Op)

(* impl_instruction *)

(* Mutant: the arm of the last opcode names another opcode. *)
Instruction_opcode_wrong_arm(inst) ==
    IF inst.tag = Registry[Len(Registry)].Op
    THEN OpcodeEnum(Registry[2].Op)
    ELSE OpcodeEnum(inst.tag)

Instruction_opcode(inst) == OpcodeEnum(inst.tag)

From_Instruction_for_u8x4(inst) == From_Op_for_u8x4(Payload(inst))

(* Mutant: the arm wraps the operand bytes in the wrong order. *)
Instruction_try_from_swapped(bs) ==
    LET r == Opcode_try_from(bs[1])
    IN  IF r.ty = "Err"
        THEN r
        ELSE InstructionEnum(r.tag, <<bs[2], bs[4], bs[3]>>)

(* Mutant: decoding zeroes the operand bits the layout leaves unused. *)
Instruction_try_from_masking(bs) ==
    LET r == Opcode_try_from(bs[1])
    IN  IF r.ty = "Err"
        THEN r
        ELSE InstructionEnum(r.tag, ClearUnused(r.tag, <<bs[2], bs[3], bs[4]>>))

(* Mutant: decoding rejects a word whose unused operand bits are not zero. *)
Instruction_try_from_strict(bs) ==
    LET r == Opcode_try_from(bs[1])
        arr == <<bs[2], bs[3], bs[4]>>
    IN  IF r.ty = "Err"
        THEN r
        ELSE IF UnusedPart(r.tag, arr) # 0
             THEN InvalidOpcode
             ELSE InstructionEnum(r.tag, arr)

(* The ? returns the error of Opcode::try_from; otherwise the arm of the   *)
(* opcode wraps the three operand bytes as they are.                       *)
Instruction_try_from(bs) ==
    LET r == Opcode_try_from(bs[1])
    IN  IF r.ty = "Err"
        THEN r
        ELSE InstructionEnum(r.tag, <<bs[2], bs[3], bs[4]>>)

-----------------------------------------------------------------------------
(* The values a caller starts from. *)

OpcodeBytes == {Registry[k].ix : k \in 1..Len(Registry)} \cup {1, 17, 255}

OperandSamples ==
    {<<a, b, c>> : a \in {0, 12, 252, 255},
                   b \in {0, 15, 115, 240, 255},
                   c \in {0, 63, 192, 232, 255}}

FieldSamples(field) ==
    CASE field = "RegId" -> {0, 3, 7, 63}
      [] field = "Imm12" -> {0, 1000, 4095}
      [] field = "Imm18" -> {0, 1000, 4096, 262143}
      [] field = "Imm24" -> {0, 1000, 262144, 16777215}

RECURSIVE FieldTuples(_)
FieldTuples(L) ==
    IF L = <<>>
    THEN {<<>>}
    ELSE {<<h>> \o t : h \in FieldSamples(Head(L)), t \in FieldTuples(Tail(L))}

(* Operand fields of one opcode that agree or differ in chosen bit ranges: *)
(* the low 6 bits, bits 6..11, bits 12..17 (the second register).          *)
PairOperands == {<<12, 112, 0>>, <<12, 112, 63>>, <<12, 127, 192>>, <<12, 128, 0>>}

(* A caller holds one 4-byte word to decode. *)
WordInputs == {{U8x4(<<o>> \o x)} : o \in OpcodeBytes, x \in OperandSamples}

(* A caller holds the fields of an instruction to build. *)
FieldInputs ==
    UNION {{{Fields(Op, t)} : t \in FieldTuples(Layout(Op))} : Op \in Ops}

(* A caller holds one or two decoded instructions of the same opcode. *)
PairInputs ==
    {{InstructionEnum(Op, x), InstructionEnum(Op, y)} :
        Op \in Ops, x \in PairOperands, y \in PairOperands}

(* A caller holds one byte to look up. *)
ByteInputs == {{U8(b)} : b \in 0..255}

Init ==
    /\ input \in WordInputs \cup FieldInputs \cup PairInputs \cup ByteInputs
    /\ calls = {}

-----------------------------------------------------------------------------
(* What a call may be applied to. *)

Avail == input \cup {c.ret : c \in calls}

OfType(ty) == {x \in Avail : x.ty = ty}

(* A per-opcode value in hand, or the payload of an instruction in hand. *)
OpValues == OfType("Op") \cup {Payload(i) : i \in OfType("Instruction")}

(* A byte in hand, or the first byte of a word in hand. *)
ByteValues == OfType("u8") \cup {U8(w.v[1]) : w \in OfType("u8x4")}

Call(fn, arg, ret) ==
    LET c == [fn |-> fn, arg |-> arg, ret |-> ret]
    IN  /\ Cardinality(calls) < MaxCalls
        /\ c \notin calls
        /\ calls' = calls \cup {c}
        /\ UNCHANGED input

HasAccessor(op, name) == name \in impl_op_accessors(Layout(op.tag))

-----------------------------------------------------------------------------
(* One action per generated function. *)

New == \E f \in OfType("Fields") : Call("new", f, new(f.tag, f.v))

Constructor ==
    \E f \in OfType("Fields") : Call("constructor", f, impl_op_constructor(f.tag, f.v))

Unpack == \E op \in OpValues : HasUnpack(op.tag) /\ Call("unpack", op, unpack(op))

Ra == \E op \in OpValues : HasAccessor(op, "ra") /\ Call("ra", op, Op_ra(op))

Rb == \E op \in OpValues : HasAccessor(op, "rb") /\ Call("rb", op, Op_rb(op))

Rc == \E op \in OpValues : HasAccessor(op, "rc") /\ Call("rc", op, Op_rc(op))

Rd == \E op \in OpValues : HasAccessor(op, "rd") /\ Call("rd", op, Op_rd(op))

Imm12 == \E op \in OpValues : HasAccessor(op, "imm12") /\ Call("imm12", op, Op_imm12(op))

Imm18 == \E op \in OpValues : HasAccessor(op, "imm18") /\ Call("imm18", op, Op_imm18(op))

Imm24 == \E op \in OpValues : HasAccessor(op, "imm24") /\ Call("imm24", op, Op_imm24(op))

OpIntoU8x3 == \E op \in OpValues : Call("From<Op> for [u8; 3]", op, From_Op_for_u8x3(op))

OpIntoU8x4 == \E op \in OpValues : Call("From<Op> for [u8; 4]", op, From_Op_for_u8x4(op))

OpIntoU32 == \E op \in OpValues : Call("From<Op> for u32", op, From_Op_for_u32(op))

OpIntoInstruction ==
    \E op \in OpValues : Call("From<Op> for Instruction", op, From_Op_for_Instruction(op))

OpcodeAsU8 == \E o \in OfType("Opcode") : Call("as u8", o, U8(Opcode_as_u8(o)))

OpcodeTryFrom ==
    \E b \in ByteValues : Call("Opcode::try_from", b, Opcode_try_from(b.v[1]))

InstructionOpcode ==
    \E i \in OfType("Instruction") : Call("opcode", i, Instruction_opcode(i))

InstructionIntoU8x4 ==
    \E i \in OfType("Instruction") :
        Call("From<Instruction> for [u8; 4]", i, From_Instruction_for_u8x4(i))

InstructionTryFrom ==
    \E w \in OfType("u8x4") : Call("Instruction::try_from", w, Instruction_try_from(w.v))

Next ==
    \/ New
    \/ Constructor
    \/ Unpack
    \/ Ra
    \/ Rb
    \/ Rc
    \/ Rd
    \/ Imm12
    \/ Imm18
    \/ Imm24
    \/ OpIntoU8x3
    \/ OpIntoU8x4
    \/ OpIntoU32
    \/ OpIntoInstruction
    \/ OpcodeAsU8
    \/ OpcodeTryFrom
    \/ InstructionOpcode
    \/ InstructionIntoU8x4
    \/ InstructionTryFrom

Spec == Init /\ [][Next]_vars

-----------------------------------------------------------------------------
(* Reading the calls made so far. *)

RegisteredBytes == {Registry[k].ix : k \in 1..Len(Registry)}

OpAt(b) == CHOOSE Op \in Ops : Entry(Op).ix = b

CallsOf(fn) == {c \in calls : c.fn = fn}

Decodes == CallsOf("Instruction::try_from")

Encodes == CallsOf("From<Instruction> for [u8; 4]")

-----------------------------------------------------------------------------
(* C1: decoding the 4-byte encoding of an Instruction succeeds and returns *)
(* the same Instruction, whatever built it.                                *)
C1_DecodeEncode ==
    \A e \in Encodes : \A d \in Decodes :
        d.arg = e.ret => d.ret = e.arg

(* An instruction built by a named constructor, with all operand bits      *)
(* in use, was encoded and decoded back.                                   *)
C1_Witness ==
    \E k \in CallsOf("constructor") : \E e \in Encodes : \E d \in Decodes :
        /\ k.arg = Fields("ADDI", <<3, 7, 1000>>)
        /\ e.arg = k.ret
        /\ d.arg = e.ret
        /\ d.ret = k.ret

(* C2: for a word whose first byte is a registered opcode, decoding        *)
(* succeeds and encoding the decoded instruction returns the word itself,  *)
(* with no condition on the operand bytes.                                 *)
C2_EncodeDecode ==
    \A d \in Decodes :
        d.arg.v[1] \in RegisteredBytes =>
            /\ d.ret.ty = "Instruction"
            /\ \A e \in Encodes : e.arg = d.ret => e.ret = d.arg

(* A one-register word with nonzero low operand bits came back unchanged. *)
C2_Witness ==
    \E d \in Decodes : \E e \in Encodes :
        /\ d.arg = U8x4(<<36, 12, 115, 232>>)
        /\ e.arg = d.ret
        /\ e.ret = d.arg

Operand(w) == <<w[2], w[3], w[4]>>

(* C3 as stated: for a word of an under-full opcode whose unused operand   *)
(* bits are not zero, encoding the decoded instruction gives the word with *)
(* those bits cleared and every other bit unchanged.                       *)
C3_EncodeClearsReserved ==
    \A d \in Decodes : \A e \in Encodes :
        LET b == d.arg.v IN
        (/\ b[1] \in RegisteredBytes
         /\ UnderFull(OpAt(b[1]))
         /\ UnusedPart(OpAt(b[1]), Operand(b)) # 0
         /\ e.arg = d.ret)
        => e.ret.v = <<b[1]>> \o ClearUnused(OpAt(b[1]), Operand(b))

(* C3 amended: for a word of an under-full opcode whose unused operand     *)
(* bits are not zero, encoding the decoded instruction keeps those bits as *)
(* they were in the word (not cleared), and the opcode byte and the bits   *)
(* the fields cover are unchanged too.                                     *)
C3_EncodeKeepsReserved ==
    \A d \in Decodes : \A e \in Encodes :
        LET b == d.arg.v
            Op == OpAt(b[1])
        IN  (/\ b[1] \in RegisteredBytes
             /\ UnderFull(Op)
             /\ UnusedPart(Op, Operand(b)) # 0
             /\ e.arg = d.ret)
            => /\ e.ret.v[1] = b[1]
               /\ UsedPart(Op, Operand(e.ret.v)) = UsedPart(Op, Operand(b))
               /\ UnusedPart(Op, Operand(e.ret.v)) = UnusedPart(Op, Operand(b))
               /\ UnusedPart(Op, Operand(e.ret.v)) # 0

(* A two-register word with nonzero unused bits was decoded and encoded. *)
C3_Witness ==
    \E d \in Decodes : \E e \in Encodes :
        /\ d.arg.v[1] = 26
        /\ UnusedPart("MOVE", Operand(d.arg.v)) # 0
        /\ e.arg = d.ret
        /\ e.ret.ty = "u8x4"

(* C4: Opcode::try_from(b) is Ok exactly for the registered bytes, then    *)
(* gives the one opcode whose byte is b, and otherwise InvalidOpcode; no   *)
(* two opcodes share a byte, and Opcode -> u8 -> Opcode is the identity.   *)
C4_OpcodeTryFrom ==
    /\ \A c \in CallsOf("Opcode::try_from") :
        LET b == c.arg.v[1] IN
        /\ (c.ret.ty = "Opcode") <=> (b \in RegisteredBytes)
        /\ b \in RegisteredBytes =>
              /\ c.ret.tag \in Ops
              /\ Entry(c.ret.tag).ix = b
              /\ \A Op \in Ops : Entry(Op).ix = b => Op = c.ret.tag
        /\ b \notin RegisteredBytes => c.ret = InvalidOpcode
    /\ \A j, k \in 1..Len(Registry) : Registry[j].ix = Registry[k].ix => j = k
    /\ \A a \in CallsOf("as u8") : \A c \in CallsOf("Opcode::try_from") :
        c.arg = a.ret => c.ret = a.arg

(* An opcode was cast to its byte and looked up again. *)
C4_Witness ==
    \E c1 \in CallsOf("Opcode::try_from") : \E a \in CallsOf("as u8") :
    \E c2 \in CallsOf("Opcode::try_from") :
        /\ c1.arg = U8(254)
        /\ a.arg = c1.ret
        /\ c2.arg = a.ret
        /\ c2.ret = c1.ret

(* C5: decoding fails with InvalidOpcode exactly when the first byte is    *)
(* not a registered opcode; otherwise it yields the variant of that opcode *)
(* carrying the three operand bytes as they are.                           *)
C5_DecodeFailsOnlyOnOpcode ==
    \A d \in Decodes :
        LET b == d.arg.v IN
        /\ (d.ret = InvalidOpcode) <=> (b[1] \notin RegisteredBytes)
        /\ b[1] \in RegisteredBytes => d.ret = InstructionEnum(OpAt(b[1]), Operand(b))
        /\ b = <<0, 0, 0, 0>> => d.ret = InstructionEnum("NOOP", <<0, 0, 0>>)
        /\ b = <<255, 0, 0, 0>> => d.ret = InvalidOpcode

(* A word with every operand bit set decoded under a one-register opcode. *)
C5_Witness ==
    \E d \in Decodes :
        /\ d.arg = U8x4(<<36, 255, 255, 255>>)
        /\ d.ret = InstructionEnum("RET", <<255, 255, 255>>)

(* C6: for every layout and every in-range field tuple t, unpacking        *)
(* $Op::new(t) returns exactly t.                                          *)
C6_UnpackNew ==
    \A n \in CallsOf("new") : \A u \in CallsOf("unpack") :
        u.arg = n.ret => u.ret = n.arg

(* The tuple (3, 7, 1000) of a two-register, 12-bit-immediate opcode was   *)
(* packed and unpacked.                                                    *)
C6_Witness ==
    \E n \in CallsOf("new") : \E u \in CallsOf("unpack") :
        /\ n.arg = Fields("ADDI", <<3, 7, 1000>>)
        /\ u.arg = n.ret
        /\ u.ret = n.arg

(* C7 as stated: for every layout and every operand field x, packing the   *)
(* tuple unpacked from x gives x back.                                     *)
C7_NewUnpack ==
    \A u \in CallsOf("unpack") : \A n \in CallsOf("new") :
        n.arg = u.ret => n.ret = u.arg

(* C7 amended: packing the tuple unpacked from x gives x with the bits no  *)
(* field covers cleared; that is x itself for the full layouts (R4, R2I12, *)
(* R1I18, I24) and for an R1, R2 or R3 field whose unused low bits are     *)
(* zero, and differs from x otherwise.                                     *)
C7_NewUnpackClearsUnused ==
    \A u \in CallsOf("unpack") : \A n \in CallsOf("new") :
        n.arg = u.ret =>
            /\ n.ret = OpStruct(u.arg.tag, ClearUnused(u.arg.tag, u.arg.v))
            /\ (n.ret = u.arg) <=> (UnusedPart(u.arg.tag, u.arg.v) = 0)
            /\ ~UnderFull(u.arg.tag) => n.ret = u.arg

(* A one-register field with nonzero unused bits was unpacked and packed   *)
(* again, and came back changed.                                           *)
C7_Witness ==
    \E u \in CallsOf("unpack") : \E n \in CallsOf("new") :
        /\ u.arg = OpStruct("RET", <<12, 115, 232>>)
        /\ n.arg = u.ret
        /\ n.ret = OpStruct("RET", <<12, 0, 0>>)

(* C8: a per-opcode value with operand bytes [a, b, c] converts to the     *)
(* 3 bytes [a, b, c], to the 4 bytes [OPCODE, a, b, c] and to the u32 that *)
(* reads those 4 bytes big-endian; and encoding Instruction::from(op)      *)
(* gives the same 4 bytes as encoding op.                                  *)
C8_WireForms ==
    /\ \A c \in CallsOf("From<Op> for [u8; 3]") : c.ret = U8x3(c.arg.v)
    /\ \A c \in CallsOf("From<Op> for [u8; 4]") :
        c.ret = U8x4(<<Entry(c.arg.tag).ix>> \o c.arg.v)
    /\ \A c \in CallsOf("From<Op> for u32") :
        c.ret = U32(Entry(c.arg.tag).ix * 256 + c.arg.v[1],
                    c.arg.v[2] * 256 + c.arg.v[3])
    /\ \A i \in CallsOf("From<Op> for Instruction") : \A e \in Encodes :
        e.arg = i.ret =>
            /\ e.ret = U8x4(<<Entry(i.arg.tag).ix>> \o i.arg.v)
            /\ \A c \in CallsOf("From<Op> for [u8; 4]") :
                c.arg = i.arg => c.ret = e.ret

(* A per-opcode value of the opcode with the highest byte was converted to *)
(* a u32, and to an Instruction that was then encoded.                     *)
C8_Witness ==
    \E c \in CallsOf("From<Op> for u32") :
    \E i \in CallsOf("From<Op> for Instruction") : \E e \in Encodes :
        /\ c.arg = OpStruct("XOR", <<12, 112, 63>>)
        /\ c.ret = U32(254 * 256 + 12, 112 * 256 + 63)
        /\ i.arg = c.arg
        /\ e.arg = i.ret
        /\ e.ret = U8x4(<<254, 12, 112, 63>>)

Accessors == {"unpack", "ra", "rb", "rc", "rd", "imm12", "imm18", "imm24"}

(* C9: new() of an under-full layout leaves the bits no field covers zero  *)
(* (all 24 for a no-operand opcode), and unpack and the accessors ignore   *)
(* those bits: on two values of one opcode whose operand bytes differ only *)
(* in them, the same method returns the same fields.                       *)
C9_UnusedBits ==
    /\ \A n \in CallsOf("new") :
        /\ UnusedPart(n.arg.tag, n.ret.v) = 0
        /\ Layout(n.arg.tag) = <<>> => n.ret.v = <<0, 0, 0>>
    /\ \A c1 \in calls : \A c2 \in calls :
        (/\ c1.fn \in Accessors
         /\ c2.fn = c1.fn
         /\ c2.arg.ty = "Op"
         /\ c1.arg.ty = "Op"
         /\ c2.arg.tag = c1.arg.tag
         /\ UnderFull(c1.arg.tag)
         /\ UsedPart(c1.arg.tag, c1.arg.v) = UsedPart(c1.arg.tag, c2.arg.v))
        => c1.ret = c2.ret

(* Two two-register instructions differing only in unused bits were both   *)
(* asked for their second register.                                        *)
C9_Witness ==
    \E c1 \in CallsOf("rb") : \E c2 \in CallsOf("rb") :
        /\ c1.arg = OpStruct("MOVE", <<12, 112, 0>>)
        /\ c2.arg = OpStruct("MOVE", <<12, 127, 192>>)
        /\ c1.ret = c2.ret

(* C10: opcode() agrees with the first byte of the wire form; the opcode   *)
(* of a decoded word is Opcode::try_from of its first byte, whatever the   *)
(* operand bytes; and the named constructor returns the Instruction of its *)
(* own opcode, equal to Instruction::from($Op::new(fields)).               *)
C10_OpcodeTag ==
    /\ \A o \in CallsOf("opcode") : \A e \in Encodes :
        e.arg = o.arg =>
            /\ Entry(o.ret.tag).ix = e.ret.v[1]
            /\ \A a \in CallsOf("as u8") : a.arg = o.ret => a.ret = U8(e.ret.v[1])
    /\ \A d \in Decodes : \A o \in CallsOf("opcode") :
        o.arg = d.ret =>
            \A c \in CallsOf("Opcode::try_from") :
                c.arg = U8(d.arg.v[1]) => o.ret = c.ret
    /\ \A k \in CallsOf("constructor") :
        /\ k.ret.ty = "Instruction"
        /\ \A o \in CallsOf("opcode") : o.arg = k.ret => o.ret = OpcodeEnum(k.arg.tag)
        /\ \A n \in CallsOf("new") : \A i \in CallsOf("From<Op> for Instruction") :
            (n.arg = k.arg /\ i.arg = n.ret) => i.ret = k.ret

(* A word with nonzero operand bytes was decoded, its opcode taken, and    *)
(* its first byte looked up.                                               *)
C10_Witness ==
    \E d \in Decodes : \E o \in CallsOf("opcode") : \E c \in CallsOf("Opcode::try_from") :
        /\ d.arg = U8x4(<<254, 255, 240, 192>>)
        /\ o.arg = d.ret
        /\ c.arg = U8(254)
        /\ o.ret = c.ret

====
